---- MODULE Spec2Model ----
(***************************************************************************)
(* State-machine model of the eSIM provisioning orchestration              *)
(* (ProvisioningService.provisionEsim / pollEsimStatus, triggered by the   *)
(* order-completed webhook and the manual admin trigger), of the          *)
(* background task of an order-completed delivery, and of the eSIM record  *)
(* store with its writers (vendor webhook handlers, activateEsim,          *)
(* deactivateEsim, POST /esim/order, GET /esim/usage, the admin profile    *)
(* routes).                                                                *)
(***************************************************************************)
EXTENDS Integers, Sequences, FiniteSets, TLC

\* ------------------------------------------------------------------ bounds
MaxRuns == 2          \* provisioning invocations in one behaviour
MaxEsims == 2         \* rows the esims table may hold
MaxClock == 4         \* requests served by the record-store side

\* ------------------------------------------------------- program constants
MinBalance == 10      \* balance.balance < 10
maxRetries == 10      \* pollEsimStatus(orderNumber, maxRetries = 10)
GraceDelay == 5000    \* await sleep(5000)
BaseDelay == 3000     \* sleep(3000 * Math.pow(2, i))

\* ------------------------------------------------------------ value spaces
Null == <<>>
Some(v) == <<v>>

OrderIds == {101, 102}
CompletedOrders == {101}   \* the order whose completion triggers provisioning
Skus == {"ESIM-A"}
Iccids == {"X", "Y"}
EmptyIccid == ""
RunIds == 1..MaxRuns
Triggers == {"order-completed", "manual"}

\* balances the vendor may report: just below and exactly at the threshold
BalanceAnswers == {MinBalance - 1, MinBalance}
\* a vendor reply is a payload, or a failed request (ESIMClient.request throws)
BalanceReplies ==
  {[ok |-> TRUE, balance |-> b] : b \in BalanceAnswers}
    \cup {[ok |-> FALSE, balance |-> 0]}
\* the ICCID of the profile the vendor allocates to a provisioning order
ProfileIccids == {"X"}
PollReplies ==
  {[ok |-> TRUE, iccid |-> c] : c \in ProfileIccids \cup {EmptyIccid}}
    \cup {[ok |-> FALSE, iccid |-> EmptyIccid]}
LedgerReplies == BOOLEAN   \* the WooCommerce call resolves, or it throws

VARIABLES
  runs,      \* runs[r]: one invocation of provisionEsim and its caller
  vendor,    \* vendor[r]: calls run r issued to the vendor API
  ledger,    \* ledger[r]: writes run r issued to the WooCommerce order
  hook,      \* the background task of one order-completed delivery
  esims,     \* rows of table esims, in insertion order
  timers,    \* ids with a pending setTimeout activation
  clock,     \* new Date()
  lastReq,   \* the request served by the latest step: its response and
             \* the record-store calls it made, in order
  applied,   \* applied[id]: status-writing events applied to row id
  pending    \* requests suspended at an await between two of their calls

provVars == <<runs, vendor, ledger, hook>>
storeVars == <<esims, timers, clock, lastReq, applied, pending>>
vars ==
  <<runs, vendor, ledger, hook, esims, timers, clock, lastReq, applied,
    pending>>

\* ----------------------------------------------------------------------
\* Provisioning orchestrator
\* ----------------------------------------------------------------------
IdleRun ==
  [pc |-> "idle", trigger |-> "none", orderId |-> 0, sku |-> "",
   balance |-> Null, orderNumber |-> Null, i |-> 0, waited |-> 0,
   onlyEmpty |-> TRUE, details |-> Null, caught |-> "none",
   outcome |-> "none", thrown |-> "none", result |-> Null, resp |-> Null]

NoCalls == [balance |-> 0, order |-> 0, poll |-> 0]
NoWrites == [notes |-> <<>>, metas |-> <<>>]

Pow2(n) == 2 ^ n

\* mutant: the delay grows linearly with the attempt
BackoffLinear(i) == BaseDelay * i

\* sleep(3000 * Math.pow(2, i))
BackoffDelay(i) == BaseDelay * Pow2(i)

\* formatEsimNote(esim): reads esim.iccid, so an undefined esim throws
FormatEsimNote(details) ==
  IF details = Null
    THEN [ok |-> FALSE, error |-> "TypeError"]
    ELSE [ok |-> TRUE, note |-> [kind |-> "ready", iccid |-> details[1].iccid]]

\* the failure note of the catch block
FailureNote(error) == [kind |-> "failed", error |-> error]

\* updateOrderMeta(orderId, { iccid, qr_code, activation_link, status })
ProvisionedMeta(details) ==
  [iccid |-> details[1].iccid, status |-> "provisioned"]

\* response of the caller once provisionEsim has settled
ManualResponse(outcome, result, error) ==
  IF outcome = "returned"
    THEN Some([status |-> 200, success |-> TRUE, data |-> result])
    ELSE Some([status |-> 500, success |-> FALSE, error |-> error])

\* mutant: the outcome of the run is sent to every caller
SettleAnswersAll(run, outcome, result, error) ==
  [run EXCEPT !.pc = "done", !.outcome = outcome, !.result = result,
              !.thrown = error,
              !.resp = ManualResponse(outcome, result, error)]

\* the caller's side of a settled run: manuallyProvisionEsim answers,
\* the background task of handleWooCommerceOrderCompleted only logs
Settle(run, outcome, result, error) ==
  [run EXCEPT !.pc = "done", !.outcome = outcome, !.result = result,
              !.thrown = error,
              !.resp = IF run.trigger = "manual"
                         THEN ManualResponse(outcome, result, error)
                         ELSE run.resp]

\* catch (error): the failure note, then throw error; a createOrderNote
\* that throws inside the catch block replaces the error
CatchBlock(run, writes, failOk) ==
  IF failOk
    THEN [run |-> Settle(run, "thrown", Null, run.caught),
          writes |-> [writes EXCEPT !.notes =
                        Append(@, FailureNote(run.caught))]]
    ELSE [run |-> Settle(run, "thrown", Null, "LedgerError"),
          writes |-> writes]

\* the run goes on from a step: a step that threw runs the catch block
GoOn(r, next, writes, failOk) ==
  LET out == IF next.pc = "catch" THEN CatchBlock(next, writes, failOk)
             ELSE [run |-> next, writes |-> writes]
  IN /\ runs' = [runs EXCEPT ![r] = out.run]
     /\ ledger' = [ledger EXCEPT ![r] = out.writes]

\* provisionEsim({ orderId, sku, quantity }) is entered for a trigger
NewRun(trigger, orderId, sku) ==
  [IdleRun EXCEPT !.pc = "balance", !.trigger = trigger,
                  !.orderId = orderId, !.sku = sku,
                  !.resp = IF trigger = "order-completed"
                             THEN Some([status |-> 200, received |-> TRUE])
                             ELSE Null]

\* A trigger arrives: handleWooCommerceOrderCompleted answers at once and
\* provisions in the background, manuallyProvisionEsim awaits the run.
Start(r, trigger, orderId, sku) ==
  /\ runs[r].pc = "idle"
  /\ \A q \in RunIds : q < r => runs[q].pc # "idle"
  /\ runs' = [runs EXCEPT ![r] = NewRun(trigger, orderId, sku)]
  /\ UNCHANGED <<vendor, ledger, hook, storeVars>>

\* mutant: the balance threshold is not enforced
BalanceCheckNoFloor(run, answer) ==
  IF ~answer.ok
    THEN [run EXCEPT !.pc = "catch", !.caught = "VendorTransportError"]
    ELSE [run EXCEPT !.pc = "order", !.balance = Some(answer.balance)]

\* 1. Check balance
BalanceCheck(run, answer) ==
  IF ~answer.ok
    THEN [run EXCEPT !.pc = "catch", !.caught = "VendorTransportError"]
    ELSE IF answer.balance < MinBalance
      THEN [run EXCEPT !.pc = "catch", !.caught = "InsufficientFunds",
                       !.balance = Some(answer.balance)]
      ELSE [run EXCEPT !.pc = "order", !.balance = Some(answer.balance)]

CheckBalance(r) ==
  /\ runs[r].pc = "balance"
  /\ \E answer \in BalanceReplies, failOk \in LedgerReplies :
       GoOn(r, BalanceCheck(runs[r], answer), ledger[r], failOk)
  /\ vendor' = [vendor EXCEPT ![r].balance = @ + 1]
  /\ UNCHANGED <<hook, storeVars>>

\* 2. Order eSIM, 3. Wait for provisioning
OrderPlaced(run, r, accepted) ==
  IF accepted
    THEN [run EXCEPT !.pc = "poll", !.orderNumber = Some(r), !.i = 1,
                     !.waited = GraceDelay]
    ELSE [run EXCEPT !.pc = "catch", !.caught = "VendorTransportError"]

PlaceOrder(r) ==
  /\ runs[r].pc = "order"
  /\ \E accepted \in BOOLEAN, failOk \in LedgerReplies :
       GoOn(r, OrderPlaced(runs[r], r, accepted), ledger[r], failOk)
  /\ vendor' = [vendor EXCEPT ![r].order = @ + 1]
  /\ UNCHANGED <<hook, storeVars>>

\* mutant: any answered poll query ends the loop, with or without ICCID
PollStepReturnsAny(run, reply) ==
  LET seen == [run EXCEPT !.onlyEmpty =
                 @ /\ reply.ok /\ reply.iccid = EmptyIccid]
  IN IF reply.ok
       THEN [seen EXCEPT !.pc = "note",
                         !.details = Some([iccid |-> reply.iccid])]
       ELSE IF ~reply.ok /\ run.i = maxRetries
         THEN [seen EXCEPT !.pc = "catch", !.caught = "VendorTransportError"]
         ELSE IF run.i + 1 <= maxRetries
           THEN [seen EXCEPT !.i = @ + 1, !.waited = BackoffDelay(run.i)]
           ELSE [seen EXCEPT !.pc = "note", !.i = @ + 1, !.details = Null,
                             !.waited = BackoffDelay(run.i)]

\* mutant: any failed poll query aborts the loop
PollStepAbortsOnError(run, reply) ==
  LET seen == [run EXCEPT !.onlyEmpty =
                 @ /\ reply.ok /\ reply.iccid = EmptyIccid]
  IN IF reply.ok /\ reply.iccid # EmptyIccid
       THEN [seen EXCEPT !.pc = "note",
                         !.details = Some([iccid |-> reply.iccid])]
       ELSE IF ~reply.ok
         THEN [seen EXCEPT !.pc = "catch", !.caught = "VendorTransportError"]
         ELSE IF run.i + 1 <= maxRetries
           THEN [seen EXCEPT !.i = @ + 1, !.waited = BackoffDelay(run.i)]
           ELSE [seen EXCEPT !.pc = "note", !.i = @ + 1, !.details = Null,
                             !.waited = BackoffDelay(run.i)]

\* mutant: the loop runs one iteration past maxRetries
PollStepOneMore(run, reply) ==
  LET seen == [run EXCEPT !.onlyEmpty =
                 @ /\ reply.ok /\ reply.iccid = EmptyIccid]
  IN IF reply.ok /\ reply.iccid # EmptyIccid
       THEN [seen EXCEPT !.pc = "note",
                         !.details = Some([iccid |-> reply.iccid])]
       ELSE IF ~reply.ok /\ run.i = maxRetries + 1
         THEN [seen EXCEPT !.pc = "catch", !.caught = "VendorTransportError"]
         ELSE IF run.i + 1 <= maxRetries + 1
           THEN [seen EXCEPT !.i = @ + 1, !.waited = BackoffDelay(run.i)]
           ELSE [seen EXCEPT !.pc = "note", !.i = @ + 1, !.details = Null,
                             !.waited = BackoffDelay(run.i)]

\* 4. Get eSIM details: one iteration of the loop of pollEsimStatus
PollStep(run, reply) ==
  LET seen == [run EXCEPT !.onlyEmpty =
                 @ /\ reply.ok /\ reply.iccid = EmptyIccid]
  IN IF reply.ok /\ reply.iccid # EmptyIccid
       THEN [seen EXCEPT !.pc = "note",
                         !.details = Some([iccid |-> reply.iccid])]
       ELSE IF ~reply.ok /\ run.i = maxRetries
         THEN [seen EXCEPT !.pc = "catch", !.caught = "VendorTransportError"]
         ELSE IF run.i + 1 <= maxRetries
           THEN [seen EXCEPT !.i = @ + 1, !.waited = BackoffDelay(run.i)]
           ELSE [seen EXCEPT !.pc = "note", !.i = @ + 1, !.details = Null,
                             !.waited = BackoffDelay(run.i)]

Poll(r) ==
  /\ runs[r].pc = "poll"
  /\ \E reply \in PollReplies, failOk \in LedgerReplies :
       GoOn(r, PollStep(runs[r], reply), ledger[r], failOk)
  /\ vendor' = [vendor EXCEPT ![r].poll = @ + 1]
  /\ UNCHANGED <<hook, storeVars>>

\* mutant: the note is written but the order metadata is never updated
UpdateWooCommerceNoMeta(run, writes, noteOk, metaOk) ==
  LET fmt == FormatEsimNote(run.details)
  IN IF ~fmt.ok
       THEN [run |-> [run EXCEPT !.pc = "catch", !.caught = fmt.error],
             writes |-> writes]
       ELSE IF ~noteOk
         THEN [run |-> [run EXCEPT !.pc = "catch", !.caught = "LedgerError"],
               writes |-> writes]
         ELSE [run |-> Settle(run, "returned", run.details, "none"),
               writes |-> [writes EXCEPT !.notes = Append(@, fmt.note)]]

\* 5. Update WooCommerce: formatEsimNote, createOrderNote, updateOrderMeta,
\* return esimDetails
UpdateWooCommerce(run, writes, noteOk, metaOk) ==
  LET fmt == FormatEsimNote(run.details)
  IN IF ~fmt.ok
       THEN [run |-> [run EXCEPT !.pc = "catch", !.caught = fmt.error],
             writes |-> writes]
       ELSE IF ~noteOk
         THEN [run |-> [run EXCEPT !.pc = "catch", !.caught = "LedgerError"],
               writes |-> writes]
         ELSE LET noted == [writes EXCEPT !.notes = Append(@, fmt.note)]
              IN IF ~metaOk
                   THEN [run |-> [run EXCEPT !.pc = "catch",
                                             !.caught = "LedgerError"],
                         writes |-> noted]
                   ELSE [run |-> Settle(run, "returned", run.details, "none"),
                         writes |-> [noted EXCEPT !.metas =
                                       Append(@, ProvisionedMeta(run.details))]]

Annotate(r) ==
  /\ runs[r].pc = "note"
  /\ \E noteOk \in LedgerReplies, metaOk \in LedgerReplies,
        failOk \in LedgerReplies :
       LET out == UpdateWooCommerce(runs[r], ledger[r], noteOk, metaOk)
       IN GoOn(r, out.run, out.writes, failOk)
  /\ UNCHANGED <<vendor, hook, storeVars>>

\* ----------------------------------------------------------------------
\* eSIM record store and its writers
\* ----------------------------------------------------------------------
Terminal == {"CANCELLED", "EXPIRED", "REVOKED", "DEACTIVATED"}
Statuses == {"PENDING_ACTIVATION", "ACTIVE", "SUSPENDED"} \cup Terminal

NoReason == "undefined"
Reasons == {NoReason, "fraud"}
Callers == {[id |-> "u1", role |-> "user"], [id |-> "u2", role |-> "user"],
            [id |-> "adm", role |-> "admin"]}
NoCaller == [id |-> "", role |-> ""]
\* table orders: the owner of each order
OrderOwner(o) == IF o = 101 THEN "u1" ELSE "u2"

LifecycleEvents == {"profile.activated", "profile.suspended",
                    "profile.unsuspended", "profile.cancelled",
                    "profile.expired", "profile.revoked"}
KnownEvents == LifecycleEvents \cup {"usage.threshold", "balance.low"}
UnknownEvent == "profile.renewed"
VendorTime == Some(0)

\* webhook payloads the vendor may send
NoData == [event |-> "", iccid |-> EmptyIccid, activationTime |-> Null,
           reason |-> NoReason]
Payloads ==
  {[NoData EXCEPT !.event = e, !.iccid = c] :
      e \in KnownEvents \cup {UnknownEvent}, c \in Iccids}
  \cup {[NoData EXCEPT !.event = "profile.activated", !.iccid = c,
                       !.activationTime = VendorTime] : c \in Iccids}
  \cup {[NoData EXCEPT !.event = e, !.iccid = c, !.reason = "fraud"] :
      e \in {"profile.suspended", "profile.cancelled"}, c \in Iccids}

\* request bodies: unparsable text, the JSON text null, a JSON object
Bodies == {"malformed", "null", "object"}
\* a record-store call that fails returns { error } and does not throw
Faults == {"none", "audit", "update", "notify"}

Now == Some(clock)

NoPending == [admin |-> Null, activations |-> <<>>]

NoReq == [kind |-> "none", body |-> "", data |-> NoData, fault |-> "none",
          esimId |-> 0, orderId |-> 0, caller |-> NoCaller,
          status |-> 0, error |-> "none", effects |-> <<>>]

Effect(table, op, what) == [table |-> table, op |-> op, what |-> what]

\* mutant: the update loses its .eq('iccid', iccid) filter
MatchAllRows(rows, iccid) == DOMAIN rows

\* ids of the rows selected by .eq('iccid', iccid)
MatchIccid(rows, iccid) == {k \in DOMAIN rows : rows[k].iccid = iccid}
\* ids of the rows selected by .eq('id', id)
MatchId(rows, id) == {k \in DOMAIN rows : rows[k].id = id}

\* reason || fallback, activationTime || new Date()
OrElse(v, absent, fallback) == IF v = absent THEN fallback ELSE v

\* the effect on the row of each status-writing event
ActivatedPatch(row, data, now) ==
  [row EXCEPT !.status = "ACTIVE",
              !.activated_at = OrElse(data.activationTime, Null, now),
              !.updated_at = now]
SuspendedPatch(row, data, now) ==
  [row EXCEPT !.status = "SUSPENDED",
              !.metadata = [suspension_reason |-> data.reason],
              !.updated_at = now]
UnsuspendedPatch(row, data, now) ==
  [row EXCEPT !.status = "ACTIVE",
              !.metadata = [suspension_reason |-> "null"],
              !.updated_at = now]
CancelledPatch(row, data, now) ==
  [row EXCEPT !.status = "CANCELLED", !.deactivated_at = now,
              !.deactivation_reason =
                 OrElse(data.reason, NoReason, "Cancelled by provider"),
              !.updated_at = now]
ExpiredPatch(row, data, now) ==
  [row EXCEPT !.status = "EXPIRED", !.updated_at = now]
RevokedPatch(row, data, now) ==
  [row EXCEPT !.status = "REVOKED", !.deactivated_at = now,
              !.deactivation_reason =
                 OrElse(data.reason, NoReason, "Revoked by provider"),
              !.updated_at = now]

LifecyclePatch(row, data, now) ==
  CASE data.event = "profile.activated" -> ActivatedPatch(row, data, now)
    [] data.event = "profile.suspended" -> SuspendedPatch(row, data, now)
    [] data.event = "profile.unsuspended" -> UnsuspendedPatch(row, data, now)
    [] data.event = "profile.cancelled" -> CancelledPatch(row, data, now)
    [] data.event = "profile.expired" -> ExpiredPatch(row, data, now)
    [] data.event = "profile.revoked" -> RevokedPatch(row, data, now)

\* handleProfileActivated .. handleProfileRevoked: one update by ICCID;
\* only handleProfileActivated looks at the update's error and writes a log
HandleLifecycle(rows, data, now, fault) ==
  LET ids == IF fault = "update" THEN {} ELSE MatchIccid(rows, data.iccid)
      upd == Effect("esims", "update", ids)
      log == Effect("esim_activation_logs", "insert", "ACTIVATED")
  IN [rows |-> [k \in DOMAIN rows |->
                 IF k \in ids THEN LifecyclePatch(rows[k], data, now)
                 ELSE rows[k]],
      touched |-> ids,
      effects |-> IF data.event = "profile.activated" /\ fault # "update"
                    THEN <<upd, log>> ELSE <<upd>>]

\* handleUsageThreshold: notify the owner of the row found by ICCID
HandleUsageThreshold(rows, data, fault) ==
  LET ids == MatchIccid(rows, data.iccid)
  IN [rows |-> rows, touched |-> {},
      effects |-> IF Cardinality(ids) = 1 /\ fault # "notify"
                    THEN <<Effect("user_notifications", "insert",
                                  rows[CHOOSE k \in ids : TRUE].user_id)>>
                    ELSE <<>>]

\* handleBalanceLow: notify the admins
HandleBalanceLow(rows, data, fault) ==
  [rows |-> rows, touched |-> {},
   effects |-> IF fault = "notify" THEN <<>>
               ELSE <<Effect("system_notifications", "insert",
                             "BALANCE_LOW")>>]

\* mutant: the default case falls into the activation handler
DispatchDefaultActivates(rows, data, now, fault) ==
  IF data.event \in LifecycleEvents
    THEN HandleLifecycle(rows, data, now, fault)
    ELSE IF data.event = "usage.threshold"
      THEN HandleUsageThreshold(rows, data, fault)
      ELSE IF data.event = "balance.low"
        THEN HandleBalanceLow(rows, data, fault)
        ELSE HandleLifecycle(rows,
               [data EXCEPT !.event = "profile.activated"], now, fault)

\* switch (webhookData.event)
Dispatch(rows, data, now, fault) ==
  IF data.event \in LifecycleEvents
    THEN HandleLifecycle(rows, data, now, fault)
    ELSE IF data.event = "usage.threshold"
      THEN HandleUsageThreshold(rows, data, fault)
      ELSE IF data.event = "balance.low"
        THEN HandleBalanceLow(rows, data, fault)
        ELSE [rows |-> rows, touched |-> {}, effects |-> <<>>]

\* the audit row of system_logs
AuditInsert(data, fault) ==
  IF fault = "audit" THEN <<>> ELSE <<Effect("system_logs", "insert", data)>>

\* mutant: a failed record-store call is answered with 500
HandleWebhookFailsOutward(rows, body, data, now, fault) ==
  IF body = "malformed"
    THEN [rows |-> rows, touched |-> {}, effects |-> <<>>,
          status |-> 200, error |-> "SyntaxError"]
    ELSE IF body = "null"
      THEN [rows |-> rows, touched |-> {},
            effects |-> AuditInsert(NoData, fault),
            status |-> 200, error |-> "TypeError"]
      ELSE LET done == Dispatch(rows, data, now, fault)
           IN [rows |-> done.rows, touched |-> done.touched,
               effects |-> AuditInsert(data, fault) \o done.effects,
               status |-> IF fault = "none" THEN 200 ELSE 500,
               error |-> IF fault = "none" THEN "none" ELSE "StoreError"]

\* POST /esim/webhook: parse, audit, dispatch, acknowledge
HandleWebhook(rows, body, data, now, fault) ==
  IF body = "malformed"
    THEN [rows |-> rows, touched |-> {}, effects |-> <<>>,
          status |-> 200, error |-> "SyntaxError"]
    ELSE IF body = "null"
      THEN [rows |-> rows, touched |-> {},
            effects |-> AuditInsert(NoData, fault),
            status |-> 200, error |-> "TypeError"]
      ELSE LET done == Dispatch(rows, data, now, fault)
           IN [rows |-> done.rows, touched |-> done.touched,
               effects |-> AuditInsert(data, fault) \o done.effects,
               status |-> 200, error |-> "none"]

\* the event tag is appended to the history of every row the event wrote
Record(history, ids, tag) ==
  [k \in DOMAIN history |->
     IF k \in ids THEN Append(history[k], tag) ELSE history[k]]

Webhook(body, data, fault) ==
  /\ clock < MaxClock
  /\ LET out == HandleWebhook(esims, body, data, Now, fault)
     IN /\ esims' = out.rows
        /\ applied' = Record(applied, out.touched, data.event)
        /\ lastReq' = [NoReq EXCEPT !.kind = "webhook", !.body = body,
                         !.data = data, !.fault = fault,
                         !.status = out.status, !.error = out.error,
                         !.effects = out.effects]
  /\ clock' = clock + 1
  /\ UNCHANGED <<timers, pending, provVars>>


\* the row activateEsim inserts
NewEsim(id, orderId, userId, iccid, now) ==
  [id |-> id, order_id |-> orderId, user_id |-> userId, iccid |-> iccid,
   status |-> "PENDING_ACTIVATION", activated_at |-> Null,
   deactivated_at |-> Null, deactivation_reason |-> "null",
   metadata |-> [ip_address |-> "ip", user_agent |-> "ua"],
   created_at |-> now, updated_at |-> now]

\* ids of the rows selected by .eq('order_id', orderId)
MatchOrder(rows, orderId) == {k \in DOMAIN rows : rows[k].order_id = orderId}

\* activateEsim before its insert: validation, order lookup, existence
\* check; .single() finds the row only when exactly one row matches.
\* 0 stands for no early return
ActivateChecks(rows, caller, orderId, productId) ==
  IF orderId = 0 \/ productId = "" THEN 400
  ELSE IF orderId \notin OrderIds \/ OrderOwner(orderId) # caller.id THEN 404
  ELSE IF Cardinality(MatchOrder(rows, orderId)) = 1 THEN 409
  ELSE 0

\* activateEsim from its insert on: insert, INITIATED log, setTimeout, 202
InsertEsim(rows, caller, orderId, iccid, now) ==
  LET id == Len(rows) + 1
  IN [rows |-> Append(rows, NewEsim(id, orderId, caller.id, iccid, now)),
      status |-> 202, created |-> id,
      effects |-> <<Effect("esims", "insert", {id}),
                    Effect("esim_activation_logs", "insert", "INITIATED")>>]

\* activateEsim served without another request in between
ActivateRequest(rows, caller, orderId, productId, iccid, now) ==
  LET early == ActivateChecks(rows, caller, orderId, productId)
  IN IF early # 0
       THEN [rows |-> rows, status |-> early, created |-> 0, effects |-> <<>>]
       ELSE InsertEsim(rows, caller, orderId, iccid, now)

ActivateEsim(caller, orderId, productId, bodyIccid) ==
  /\ clock < MaxClock
  /\ Len(esims) < MaxEsims
  /\ \E generated \in Iccids :
       LET iccid == OrElse(bodyIccid, EmptyIccid, generated)
           out == ActivateRequest(esims, caller, orderId, productId, iccid, Now)
       IN /\ esims' = out.rows
          /\ timers' = IF out.created = 0 THEN timers
                       ELSE timers \cup {out.created}
          /\ applied' = IF out.created = 0 THEN applied
                        ELSE Append(applied, <<>>)
          /\ lastReq' = [NoReq EXCEPT !.kind = "activate", !.caller = caller,
                           !.orderId = orderId, !.esimId = out.created,
                           !.status = out.status, !.effects = out.effects]
  /\ clock' = clock + 1
  /\ UNCHANGED <<pending, provVars>>

\* the callback of setTimeout(..., 5000) in activateEsim
TimerPatch(row, now) ==
  [row EXCEPT !.status = "ACTIVE", !.activated_at = now, !.updated_at = now]

ActivationTimer(id) ==
  /\ clock < MaxClock
  /\ id \in timers
  /\ timers' = timers \ {id}
  /\ esims' = [k \in DOMAIN esims |->
                IF k \in MatchId(esims, id) THEN TimerPatch(esims[k], Now)
                ELSE esims[k]]
  /\ applied' = Record(applied, MatchId(esims, id), "timer")
  /\ lastReq' = [NoReq EXCEPT !.kind = "timer", !.esimId = id,
                   !.effects = <<Effect("esims", "update", MatchId(esims, id)),
                                 Effect("esim_activation_logs", "insert",
                                        "ACTIVATED")>>]
  /\ clock' = clock + 1
  /\ UNCHANGED <<pending, provVars>>

\* deactivateEsim
DeactivatedPatch(row, reason, now) ==
  [row EXCEPT !.status = "DEACTIVATED", !.deactivated_at = now,
              !.deactivation_reason = OrElse(reason, NoReason, "User requested"),
              !.updated_at = now]

DeactivateRequest(rows, caller, id, reason, now, fault) ==
  IF MatchId(rows, id) = {}
    THEN [rows |-> rows, status |-> 404, touched |-> {}, effects |-> <<>>]
    ELSE IF rows[id].user_id # caller.id /\ caller.role # "admin"
      THEN [rows |-> rows, status |-> 403, touched |-> {}, effects |-> <<>>]
      ELSE IF rows[id].status = "DEACTIVATED"
        THEN [rows |-> rows, status |-> 400, touched |-> {}, effects |-> <<>>]
        ELSE IF fault = "update"
          THEN [rows |-> rows, status |-> 500, touched |-> {},
                effects |-> <<Effect("esims", "update", {})>>]
          ELSE [rows |-> [k \in DOMAIN rows |->
                           IF k \in MatchId(rows, id)
                             THEN DeactivatedPatch(rows[k], reason, now)
                             ELSE rows[k]],
                status |-> 200, touched |-> {id},
                effects |-> <<Effect("esims", "update", {id}),
                              Effect("esim_activation_logs", "insert",
                                     "DEACTIVATED")>>]

DeactivateEsim(caller, id, reason, fault) ==
  /\ clock < MaxClock
  /\ LET out == DeactivateRequest(esims, caller, id, reason, Now, fault)
     IN /\ esims' = out.rows
        /\ applied' = Record(applied, out.touched, "deactivate")
        /\ lastReq' = [NoReq EXCEPT !.kind = "deactivate", !.caller = caller,
                         !.esimId = id, !.fault = fault,
                         !.data = [NoData EXCEPT !.reason = reason],
                         !.status = out.status, !.effects = out.effects]
  /\ clock' = clock + 1
  /\ UNCHANGED <<timers, pending, provVars>>

\* activateEsim, first part: a request that passes the existence check is
\* suspended at the await of its insert; other requests may be served
\* before it goes on
ActivateCheck(caller, orderId, productId, bodyIccid) ==
  /\ clock < MaxClock
  /\ Len(esims) + Len(pending.activations) < MaxEsims
  /\ LET early == ActivateChecks(esims, caller, orderId, productId)
     IN IF early # 0
          THEN /\ lastReq' = [NoReq EXCEPT !.kind = "activate",
                                !.caller = caller, !.orderId = orderId,
                                !.status = early]
               /\ clock' = clock + 1
               /\ UNCHANGED pending
          ELSE /\ \E generated \in Iccids :
                    pending' = [pending EXCEPT !.activations = Append(@,
                      [caller |-> caller, orderId |-> orderId,
                       iccid |-> OrElse(bodyIccid, EmptyIccid, generated)])]
               /\ UNCHANGED <<lastReq, clock>>
  /\ UNCHANGED <<esims, timers, applied, provVars>>

\* the sequence without its n-th element
Without(seq, n) == SubSeq(seq, 1, n - 1) \o SubSeq(seq, n + 1, Len(seq))

\* activateEsim, second part: the n-th suspended request goes on
ActivateInsert(n) ==
  /\ clock < MaxClock
  /\ n \in DOMAIN pending.activations
  /\ LET a == pending.activations[n]
         out == InsertEsim(esims, a.caller, a.orderId, a.iccid, Now)
     IN /\ esims' = out.rows
        /\ timers' = timers \cup {out.created}
        /\ applied' = Append(applied, <<>>)
        /\ lastReq' = [NoReq EXCEPT !.kind = "activate", !.caller = a.caller,
                         !.orderId = a.orderId, !.esimId = out.created,
                         !.status = out.status, !.effects = out.effects]
  /\ pending' = [pending EXCEPT !.activations = Without(@, n)]
  /\ clock' = clock + 1
  /\ UNCHANGED provVars

\* POST /esim/order
VendorOrderIds == {201}
\* answers of esimClient.orderProfiles: the request fails, or an order with
\* its profiles; "" stands for a profile without iccid
OrderReplies ==
  {[ok |-> FALSE, orderId |-> 0, profiles |-> <<>>]}
    \cup {[ok |-> TRUE, orderId |-> o, profiles |-> ps] :
            o \in VendorOrderIds, ps \in {<<"X">>, <<"X", "Y">>, <<"">>}}

\* the row inserted for one profile of the vendor's answer
OrderedEsim(id, orderId, userId, iccid, now) ==
  [id |-> id, order_id |-> orderId, user_id |-> userId, iccid |-> iccid,
   status |-> "PENDING_ACTIVATION", activated_at |-> Null,
   deactivated_at |-> Null, deactivation_reason |-> "null",
   metadata |-> [provider_order_id |-> orderId],
   created_at |-> now, updated_at |-> now]

\* for (const profile of result.profiles) insert
RECURSIVE InsertProfiles(_, _, _, _, _)
InsertProfiles(rows, profiles, orderId, userId, now) ==
  IF profiles = <<>> THEN rows
  ELSE InsertProfiles(
         Append(rows, OrderedEsim(Len(rows) + 1, orderId, userId,
                                  Head(profiles), now)),
         Tail(profiles), orderId, userId, now)

OrderRequest(rows, caller, reply, now) ==
  IF ~reply.ok
    THEN [rows |-> rows, status |-> 500, effects |-> <<>>]
    ELSE [rows |-> InsertProfiles(rows, reply.profiles, reply.orderId,
                                  caller.id, now),
          status |-> 201,
          effects |-> <<Effect("esims", "insert",
                               Len(rows) + 1 .. Len(rows) + Len(reply.profiles)),
                        Effect("system_logs", "insert", "esim-order")>>]

OrderProfiles(caller) ==
  /\ clock < MaxClock
  /\ \E reply \in OrderReplies :
       /\ Len(esims) + Len(reply.profiles) <= MaxEsims
       /\ LET out == OrderRequest(esims, caller, reply, Now)
          IN /\ esims' = out.rows
             /\ applied' = applied \o [k \in 1..Len(reply.profiles) |-> <<>>]
             /\ lastReq' = [NoReq EXCEPT !.kind = "order", !.caller = caller,
                              !.orderId = reply.orderId,
                              !.status = out.status, !.effects = out.effects]
  /\ clock' = clock + 1
  /\ UNCHANGED <<timers, pending, provVars>>

\* GET /esim/usage/:iccid
UsageAnswers == {"1GB"}

\* metadata: { ...esim.metadata, last_usage: usage }, where esim holds only
\* the selected column user_id, so that the spread adds nothing
UsagePatch(row, usage, now) ==
  [row EXCEPT !.metadata = [last_usage |-> usage], !.updated_at = now]

\* the row is looked up with .single(), the owner or an admin may go on,
\* esimClient.usageCheck may fail, then the update by iccid
UsageRequest(rows, caller, iccid, answered, usage, now) ==
  LET ids == MatchIccid(rows, iccid)
  IN IF Cardinality(ids) # 1
       THEN [rows |-> rows, status |-> 404, effects |-> <<>>]
       ELSE IF rows[CHOOSE k \in ids : TRUE].user_id # caller.id
               /\ caller.role # "admin"
         THEN [rows |-> rows, status |-> 403, effects |-> <<>>]
         ELSE IF ~answered
           THEN [rows |-> rows, status |-> 500, effects |-> <<>>]
           ELSE [rows |-> [k \in DOMAIN rows |->
                            IF k \in ids THEN UsagePatch(rows[k], usage, now)
                            ELSE rows[k]],
                 status |-> 200,
                 effects |-> <<Effect("esims", "update", ids)>>]

UsageCheck(caller, iccid) ==
  /\ clock < MaxClock
  /\ \E answered \in BOOLEAN, usage \in UsageAnswers :
       LET out == UsageRequest(esims, caller, iccid, answered, usage, Now)
       IN /\ esims' = out.rows
          /\ lastReq' = [NoReq EXCEPT !.kind = "usage", !.caller = caller,
                           !.data = [NoData EXCEPT !.iccid = iccid],
                           !.status = out.status, !.effects = out.effects]
  /\ clock' = clock + 1
  /\ UNCHANGED <<timers, applied, pending, provVars>>

\* POST /esim/profiles/:profileId/{cancel,suspend,unsuspend,revoke}
AdminActions == {"cancel", "suspend", "unsuspend", "revoke"}

\* mutant: the updates of the admin routes also write the iccid column,
\* with the route's profileId
AdminPatchWritesIccid(row, action, reason, now) ==
  CASE action = "cancel" ->
         [row EXCEPT !.status = "CANCELLED", !.iccid = "profileId",
                     !.deactivated_at = now,
                     !.deactivation_reason =
                        OrElse(reason, NoReason, "Cancelled by admin"),
                     !.updated_at = now]
    [] action = "suspend" ->
         [row EXCEPT !.status = "SUSPENDED", !.iccid = "profileId",
                     !.metadata = [suspension_reason |-> reason],
                     !.updated_at = now]
    [] action = "unsuspend" ->
         [row EXCEPT !.status = "ACTIVE", !.iccid = "profileId",
                     !.metadata = [suspension_reason |-> "null"],
                     !.updated_at = now]
    [] action = "revoke" ->
         [row EXCEPT !.status = "REVOKED", !.iccid = "profileId",
                     !.deactivated_at = now,
                     !.deactivation_reason =
                        OrElse(reason, NoReason, "Revoked by admin"),
                     !.updated_at = now]

AdminPatch(row, action, reason, now) ==
  CASE action = "cancel" ->
         [row EXCEPT !.status = "CANCELLED", !.deactivated_at = now,
                     !.deactivation_reason =
                        OrElse(reason, NoReason, "Cancelled by admin"),
                     !.updated_at = now]
    [] action = "suspend" ->
         [row EXCEPT !.status = "SUSPENDED",
                     !.metadata = [suspension_reason |-> reason],
                     !.updated_at = now]
    [] action = "unsuspend" ->
         [row EXCEPT !.status = "ACTIVE",
                     !.metadata = [suspension_reason |-> "null"],
                     !.updated_at = now]
    [] action = "revoke" ->
         [row EXCEPT !.status = "REVOKED", !.deactivated_at = now,
                     !.deactivation_reason =
                        OrElse(reason, NoReason, "Revoked by admin"),
                     !.updated_at = now]

\* an admin route as a whole: authorize(['admin']), the vendor call, whose
\* failure is answered 500, then the update by id, whose error is not
\* looked at, and the response
AdminRequest(rows, caller, action, id, reason, accepted, fault, now) ==
  IF caller.role # "admin"
    THEN [rows |-> rows, status |-> 403, touched |-> {}, effects |-> <<>>]
    ELSE IF ~accepted
      THEN [rows |-> rows, status |-> 500, touched |-> {}, effects |-> <<>>]
      ELSE LET ids == IF fault = "update" THEN {} ELSE MatchId(rows, id)
           IN [rows |-> [k \in DOMAIN rows |->
                          IF k \in ids
                            THEN AdminPatch(rows[k], action, reason, now)
                            ELSE rows[k]],
               status |-> 200, touched |-> ids,
               effects |-> <<Effect("esims", "update", ids)>>]

\* an admin route served without another request in between
AdminAction(caller, action, id, reason, fault) ==
  /\ clock < MaxClock
  /\ pending.admin = Null
  /\ \E accepted \in BOOLEAN :
       LET out == AdminRequest(esims, caller, action, id, reason, accepted,
                               fault, Now)
       IN /\ esims' = out.rows
          /\ applied' = Record(applied, out.touched, action)
          /\ lastReq' = [NoReq EXCEPT !.kind = "admin", !.caller = caller,
                           !.esimId = id, !.fault = fault,
                           !.data = [NoData EXCEPT !.event = action,
                                                   !.reason = reason],
                           !.status = out.status, !.effects = out.effects]
  /\ clock' = clock + 1
  /\ UNCHANGED <<timers, pending, provVars>>

\* mutant: the row is updated first, the vendor is called afterwards
AdminCallUpdatesFirst(caller, action, id, reason) ==
  /\ clock < MaxClock
  /\ pending.admin = Null
  /\ \E accepted \in BOOLEAN :
       LET ids == IF caller.role = "admin" THEN MatchId(esims, id) ELSE {}
       IN /\ esims' = [k \in DOMAIN esims |->
                         IF k \in ids
                           THEN AdminPatch(esims[k], action, reason, Now)
                           ELSE esims[k]]
          /\ applied' = Record(applied, ids, action)
          /\ lastReq' = [NoReq EXCEPT !.kind = "admin", !.caller = caller,
                           !.esimId = id,
                           !.status = IF caller.role # "admin" THEN 403
                                      ELSE IF accepted THEN 200 ELSE 500]
  /\ clock' = clock + 1
  /\ UNCHANGED <<timers, pending, provVars>>

\* an admin route up to the await of its vendor call; the request is taken
\* only while its update can still be served
AdminCall(caller, action, id, reason) ==
  /\ clock + 1 < MaxClock
  /\ pending.admin = Null
  /\ \E accepted \in BOOLEAN :
       IF caller.role # "admin" \/ ~accepted
         THEN /\ lastReq' = [NoReq EXCEPT !.kind = "admin", !.caller = caller,
                               !.esimId = id,
                               !.status = IF caller.role # "admin" THEN 403
                                          ELSE 500]
              /\ clock' = clock + 1
              /\ UNCHANGED pending
         ELSE /\ pending' = [pending EXCEPT !.admin =
                   Some([caller |-> caller, action |-> action, id |-> id,
                         reason |-> reason])]
              /\ lastReq' = [NoReq EXCEPT !.kind = "vendor", !.caller = caller,
                               !.esimId = id]
              /\ UNCHANGED clock
  /\ UNCHANGED <<esims, timers, applied, provVars>>

\* the admin route after its vendor call: update by id, whose error is not
\* looked at, then the response
AdminUpdate(fault) ==
  /\ clock < MaxClock
  /\ pending.admin # Null
  /\ LET a == pending.admin[1]
         ids == IF fault = "update" THEN {} ELSE MatchId(esims, a.id)
     IN /\ esims' = [k \in DOMAIN esims |->
                       IF k \in ids
                         THEN AdminPatch(esims[k], a.action, a.reason, Now)
                         ELSE esims[k]]
        /\ applied' = Record(applied, ids, a.action)
        /\ lastReq' = [NoReq EXCEPT !.kind = "admin", !.caller = a.caller,
                         !.esimId = a.id, !.fault = fault, !.status = 200,
                         !.data = [NoData EXCEPT !.event = a.action,
                                                 !.reason = a.reason],
                         !.effects = <<Effect("esims", "update", ids)>>]
  /\ pending' = [pending EXCEPT !.admin = Null]
  /\ clock' = clock + 1
  /\ UNCHANGED <<timers, provVars>>

\* ----------------------------------------------------------------------
\* Order-completed gateway: handleWooCommerceOrderCompleted
\* ----------------------------------------------------------------------
\* line items of a delivered order; name "" stands for a missing name,
\* sku "" for a missing sku
LineItems ==
  {[name |-> "eSIM Japan 5GB", sku |-> "ESIM-A", product_id |-> 7],
   [name |-> "Travel ESIM Europe", sku |-> "", product_id |-> 7],
   [name |-> "Travel adapter", sku |-> "TA-1", product_id |-> 9],
   [name |-> "", sku |-> "", product_id |-> 9]}

\* order.line_items, one run of the orchestrator being available per item
Deliveries == UNION {[1..n -> LineItems] : n \in 0..MaxRuns}

\* String.prototype.toLowerCase on the names in use
ToLowerCase(name) ==
  CASE name = "eSIM Japan 5GB" -> "esim japan 5gb"
    [] name = "Travel ESIM Europe" -> "travel esim europe"
    [] name = "Travel adapter" -> "travel adapter"
    [] OTHER -> name

\* String.prototype.includes('esim') on the lower-cased names in use
IncludesEsim(lower) == lower \in {"esim japan 5gb", "travel esim europe"}

\* item.name?.toLowerCase().includes('esim')
SignalsEsim(item) == item.name # "" /\ IncludesEsim(ToLowerCase(item.name))

\* item.sku || `ESIM-${item.product_id}`
ItemSku(item) ==
  OrElse(item.sku, "",
         IF item.product_id = 7 THEN "ESIM-7" ELSE "ESIM-9")

\* indexes of order.line_items kept by the filter, in order
RECURSIVE EsimItems(_, _)
EsimItems(items, from) ==
  IF from > Len(items) THEN <<>>
  ELSE IF SignalsEsim(items[from])
    THEN <<from>> \o EsimItems(items, from + 1)
    ELSE EsimItems(items, from + 1)

IdleHook ==
  [pc |-> "idle", orderId |-> 0, items |-> <<>>, esimItems |-> <<>>,
   n |-> 0, invoked |-> <<>>, resp |-> Null, logged |-> "none"]

\* the loop body up to its await: provisionEsim is called for the n-th
\* filtered item, whose run is run n
Provision(task, n) ==
  /\ hook' = [task EXCEPT !.pc = "await", !.n = n,
                          !.invoked = Append(@, task.esimItems[n])]
  /\ runs' = [runs EXCEPT ![n] =
       NewRun("order-completed", task.orderId,
              ItemSku(task.items[task.esimItems[n]]))]

\* the delivery is acknowledged, then the background task starts
OrderCompleted(orderId, items) ==
  /\ hook.pc = "idle"
  /\ \A r \in RunIds : runs[r].pc = "idle"
  /\ LET task == [IdleHook EXCEPT
                    !.orderId = orderId, !.items = items,
                    !.esimItems = EsimItems(items, 1),
                    !.resp = Some([status |-> 200, received |-> TRUE])]
     IN IF task.esimItems = <<>>
          THEN hook' = [task EXCEPT !.pc = "done"] /\ UNCHANGED runs
          ELSE Provision(task, 1)
  /\ UNCHANGED <<vendor, ledger, storeVars>>

\* the awaited provisionEsim settles: a rejection leaves the loop through
\* the catch, which logs; otherwise the loop goes on with the next item
ItemSettled ==
  /\ hook.pc = "await"
  /\ runs[hook.n].pc = "done"
  /\ IF runs[hook.n].outcome = "thrown"
       THEN /\ hook' = [hook EXCEPT !.pc = "done",
                                    !.logged = runs[hook.n].thrown]
            /\ UNCHANGED runs
       ELSE IF hook.n = Len(hook.esimItems)
         THEN hook' = [hook EXCEPT !.pc = "done"] /\ UNCHANGED runs
         ELSE Provision(hook, hook.n + 1)
  /\ UNCHANGED <<vendor, ledger, storeVars>>

\* ----------------------------------------------------------------------
\* Specifications
\* ----------------------------------------------------------------------
Init ==
  /\ runs = [r \in RunIds |-> IdleRun]
  /\ vendor = [r \in RunIds |-> NoCalls]
  /\ ledger = [r \in RunIds |-> NoWrites]
  /\ hook = IdleHook
  /\ esims = <<>>
  /\ timers = {}
  /\ clock = 1
  /\ lastReq = NoReq
  /\ applied = <<>>
  /\ pending = NoPending

\* the orchestrator and its two triggers
NextProv ==
  \/ \E r \in RunIds, t \in Triggers, o \in CompletedOrders, s \in Skus :
       Start(r, t, o, s)
  \/ \E r \in RunIds : CheckBalance(r)
  \/ \E r \in RunIds : PlaceOrder(r)
  \/ \E r \in RunIds : Poll(r)
  \/ \E r \in RunIds : Annotate(r)

\* the record store and its writers
NextStore ==
  \/ \E c \in Callers, o \in OrderIds \cup {0}, p \in {"P1", ""},
        i \in Iccids \cup {EmptyIccid} : ActivateEsim(c, o, p, i)
  \/ \E id \in 1..MaxEsims : ActivationTimer(id)
  \/ \E c \in Callers, id \in 1..MaxEsims, rs \in Reasons,
        f \in {"none", "update"} : DeactivateEsim(c, id, rs, f)
  \/ \E d \in Payloads, f \in Faults : Webhook("object", d, f)
  \/ \E b \in Bodies \ {"object"}, f \in {"none", "audit"} :
       Webhook(b, NoData, f)

\* every writer of table esims: the routes that insert rows, the admin
\* routes, the activation timer, deactivateEsim and the vendor webhook
NextWriters ==
  \/ \E c \in Callers, o \in OrderIds, i \in {"X", EmptyIccid} :
       ActivateEsim(c, o, "P1", i)
  \/ \E c \in Callers : OrderProfiles(c)
  \/ \E c \in Callers, a \in AdminActions, id \in 1..MaxEsims :
       AdminAction(c, a, id, NoReason, "none")
  \/ \E c \in Callers, i \in Iccids : UsageCheck(c, i)
  \/ \E id \in 1..MaxEsims : ActivationTimer(id)
  \/ \E c \in Callers, id \in 1..MaxEsims :
       DeactivateEsim(c, id, NoReason, "none")
  \/ \E d \in Payloads : Webhook("object", d, "none")

\* the admin routes interleaved with the vendor webhook at the await
\* between their vendor call and their update
NextAdmin ==
  \/ \E c \in Callers, o \in OrderIds : ActivateEsim(c, o, "P1", "X")
  \/ \E c \in Callers, a \in AdminActions, id \in 1..MaxEsims,
        rs \in Reasons : AdminCall(c, a, id, rs)
  \/ \E f \in {"none", "update"} : AdminUpdate(f)
  \/ \E d \in Payloads : Webhook("object", d, "none")

\* the routes that insert rows, activateEsim interleaved at the await
\* between its existence check and its insert
NextRace ==
  \/ \E c \in Callers, o \in OrderIds \cup {0}, p \in {"P1", ""},
        i \in Iccids \cup {EmptyIccid} : ActivateCheck(c, o, p, i)
  \/ \E n \in 1..MaxEsims : ActivateInsert(n)
  \/ \E c \in Callers : OrderProfiles(c)
  \/ \E id \in 1..MaxEsims : ActivationTimer(id)

\* one provisioning run on its own
NextRun ==
  \/ \E t \in Triggers, o \in CompletedOrders, s \in Skus : Start(1, t, o, s)
  \/ CheckBalance(1)
  \/ PlaceOrder(1)
  \/ Poll(1)
  \/ Annotate(1)

\* one order-completed delivery and the runs of its background task
NextGateway ==
  \/ \E o \in CompletedOrders, items \in Deliveries : OrderCompleted(o, items)
  \/ ItemSettled
  \/ \E r \in RunIds : CheckBalance(r)
  \/ \E r \in RunIds : PlaceOrder(r)
  \/ \E r \in RunIds : Poll(r)
  \/ \E r \in RunIds : Annotate(r)

Next == NextProv \/ NextStore

Spec == Init /\ [][Next]_vars
SpecProv == Init /\ [][NextProv]_vars
SpecRun == Init /\ [][NextRun]_vars
SpecStore == Init /\ [][NextStore]_vars
SpecGateway == Init /\ [][NextGateway]_vars
SpecWriters == Init /\ [][NextWriters]_vars
SpecRace == Init /\ [][NextRace]_vars
SpecAdmin == Init /\ [][NextAdmin]_vars

\* one run whose pending step is always taken in the end: every vendor and
\* WooCommerce request settles (resolves or rejects) and every sleep elapses
SpecRunLive ==
  /\ Init /\ [][NextRun]_vars
  /\ WF_vars(CheckBalance(1))
  /\ WF_vars(PlaceOrder(1))
  /\ WF_vars(Poll(1))
  /\ WF_vars(Annotate(1))


\* ----------------------------------------------------------------------
\* Properties
\* ----------------------------------------------------------------------
RECURSIVE SumOrderCalls(_)
SumOrderCalls(rs) ==
  IF rs = {} THEN 0
  ELSE LET r == CHOOSE q \in rs : TRUE
       IN vendor[r].order + SumOrderCalls(rs \ {r})

RunsFor(o, s) == {r \in RunIds : runs[r].orderId = o /\ runs[r].sku = s}

\* C1: at most one vendor place-order call (esimService.orderProfile) is
\* ever issued for a given (orderId, sku), whatever the sequence of
\* order-completed deliveries and manual triggers.
C1_AtMostOneVendorOrder ==
  \A o \in CompletedOrders, s \in Skus : SumOrderCalls(RunsFor(o, s)) <= 1

\* C2: once provisioning has been called twice for the same (orderId, sku)
\* and both calls have returned, the record store holds exactly one eSIM
\* entity for that order.
C2_TwoCallsOneEntity ==
  \A o \in CompletedOrders, s \in Skus :
    Cardinality({r \in RunsFor(o, s) : runs[r].outcome = "returned"}) >= 2
      => Cardinality({k \in DOMAIN esims : esims[k].order_id = o}) = 1

\* C3: terminal states are absorbing: no step changes the status of an
\* entity whose status is CANCELLED, EXPIRED, REVOKED or DEACTIVATED.
C3_TerminalAbsorbing ==
  [][\A k \in DOMAIN esims :
       esims[k].status \in Terminal => esims'[k].status = esims[k].status]_vars

TerminalEvents == {"profile.cancelled", "profile.expired", "profile.revoked"}
TargetStatus(e) ==
  CASE e = "profile.activated" -> "ACTIVE"
    [] e = "profile.suspended" -> "SUSPENDED"
    [] e = "profile.unsuspended" -> "ACTIVE"
    [] e = "profile.cancelled" -> "CANCELLED"
    [] e = "profile.expired" -> "EXPIRED"
    [] e = "profile.revoked" -> "REVOKED"
\* the status the lifecycle table gives after a sequence of webhook events
ExpectedStatus(h) ==
  IF \E n \in 1..Len(h) : h[n] \in TerminalEvents
    THEN TargetStatus(h[CHOOSE n \in 1..Len(h) :
                          /\ h[n] \in TerminalEvents
                          /\ \A m \in 1..(n - 1) : h[m] \notin TerminalEvents])
    ELSE IF h = <<>> THEN "PENDING_ACTIVATION" ELSE TargetStatus(h[Len(h)])

\* C4: for an entity written only by lifecycle webhook events, the status is
\* the terminal state if a terminal event occurred in the sequence, and
\* otherwise the state of the last non-terminal event applied.
C4_FinalStatusOfSequence ==
  \A k \in DOMAIN esims :
    (\A n \in 1..Len(applied[k]) : applied[k][n] \in LifecycleEvents)
      => esims[k].status = ExpectedStatus(applied[k])

C6_TimeoutAfterTenPolls ==
  \A r \in RunIds :
    (runs[r].pc = "done" /\ vendor[r].poll > 0 /\ runs[r].onlyEmpty)
      => /\ vendor[r].poll = maxRetries
         /\ runs[r].outcome = "thrown"
         /\ runs[r].caught = "ProvisioningTimeout"

C8_SuccessAnnotatesOnce ==
  \A r \in RunIds :
    /\ runs[r].outcome = "returned"
         => /\ runs[r].details # Null
            /\ runs[r].details[1].iccid # EmptyIccid
            /\ vendor[r].order = 1
            /\ vendor[r].poll \in 1..maxRetries
            /\ ledger[r].notes =
                 <<[kind |-> "ready", iccid |-> runs[r].details[1].iccid]>>
            /\ ledger[r].metas =
                 <<[iccid |-> runs[r].details[1].iccid,
                    status |-> "provisioned"]>>
            /\ runs[r].result = runs[r].details
    /\ (runs[r].pc = "done" /\ runs[r].details # Null)
         => (runs[r].outcome = "returned" \/ runs[r].thrown = "LedgerError")

C8_Witness ==
  \E r \in RunIds :
    /\ runs[r].outcome = "returned"
    /\ vendor[r].poll = 3
    /\ Len(ledger[r].notes) = 1
    /\ Len(ledger[r].metas) = 1

\* C9: delivering the same profile.activated webhook a second time leaves
\* the entity ACTIVE with its activation timestamp as the first delivery set
\* it, and raises no error.
C9_DuplicateActivatedNoOp ==
  [][(/\ lastReq.kind = "webhook" /\ lastReq'.kind = "webhook"
      /\ lastReq.body = "object" /\ lastReq'.body = "object"
      /\ lastReq.fault = "none" /\ lastReq'.fault = "none"
      /\ lastReq.data.event = "profile.activated"
      /\ lastReq'.data = lastReq.data)
       => /\ lastReq'.error = "none"
          /\ \A k \in DOMAIN esims :
               esims[k].iccid = lastReq.data.iccid
                 => /\ esims'[k].status = "ACTIVE"
                    /\ esims'[k].activated_at = esims[k].activated_at]_vars

C11_FailureNotedAndReraised ==
  \A r \in RunIds :
    runs[r].pc = "done" /\ runs[r].caught # "none"
      => /\ runs[r].outcome = "thrown"
         /\ runs[r].thrown = runs[r].caught
         /\ ledger[r].notes # <<>>
         /\ ledger[r].notes[Len(ledger[r].notes)] = FailureNote(runs[r].caught)


\* C12: the caller of an order-completed notification is acknowledged
\* (200, received: true) in the step that takes the notification, before
\* any vendor or ledger call of the orchestration, and no outcome of the
\* background processing changes that response afterwards.
C12_AckedBeforeProcessing ==
  [][\A r \in RunIds :
       runs'[r].trigger = "order-completed"
         => /\ runs'[r].resp = Some([status |-> 200, received |-> TRUE])
            /\ runs[r].pc = "idle"
                 => vendor'[r] = NoCalls /\ ledger'[r] = NoWrites]_vars

C12_Witness ==
  \E r \in RunIds :
    /\ runs[r].trigger = "order-completed"
    /\ runs[r].pc = "done"
    /\ runs[r].outcome = "thrown"
    /\ vendor[r].balance = 1
    /\ runs[r].resp = Some([status |-> 200, received |-> TRUE])


\* C17: once the vendor has accepted an order placed by the orchestrator,
\* an eSIM entity for that order exists in the record store in status
\* PENDING_ACTIVATION.
C17_AcceptedOrderHasEntity ==
  \A r \in RunIds :
    runs[r].orderNumber # Null
      => \E k \in DOMAIN esims :
           /\ esims[k].order_id = runs[r].orderId
           /\ esims[k].status = "PENDING_ACTIVATION"


\* C18: every provisioning run terminates: a started run issues at most
\* maxRetries poll queries and reaches its end with exactly one outcome
\* (returned, or thrown for a failure or a timeout), whatever the vendor
\* answers on each call, and stays there.
C18_RunTerminates ==
  /\ [](\A r \in RunIds : vendor[r].poll <= maxRetries)
  /\ [][\A r \in RunIds : runs[r].pc = "done" => runs'[r] = runs[r]]_vars
  /\ \A r \in RunIds :
       (runs[r].pc # "idle")
         ~> (runs[r].pc = "done" /\ runs[r].outcome \in {"returned", "thrown"})

C18_Witness ==
  \E r \in RunIds :
    /\ runs[r].pc = "done"
    /\ runs[r].outcome = "thrown"
    /\ vendor[r].poll = maxRetries
    /\ runs[r].onlyEmpty


\* C19: within one run the balance query and the place-order call are each
\* issued at most once; only the poll query is repeated, and a poll query
\* issued on an attempt before the last never aborts the run: either it
\* yields the profile or the next attempt follows.
C19_OnlyPollRepeats ==
  [][\A r \in RunIds :
       /\ vendor'[r].balance <= 1
       /\ vendor'[r].order <= 1
       /\ vendor'[r].balance + vendor'[r].order
            <= vendor[r].balance + vendor[r].order + 1
       /\ (vendor'[r].poll = vendor[r].poll + 1 /\ runs[r].i < maxRetries)
            => \/ runs'[r].pc = "note" /\ runs'[r].details # Null
               \/ /\ runs'[r].pc = "poll"
                  /\ runs'[r].i = runs[r].i + 1
                  /\ runs'[r].caught = "none"]_vars

\* a poll failed with a transport error and the loop went on
C19_Witness ==
  \E r \in RunIds :
    /\ runs[r].pc = "poll"
    /\ runs[r].i = 3
    /\ ~runs[r].onlyEmpty
    /\ vendor[r] = [balance |-> 1, order |-> 1, poll |-> 2]


\* C20 (as stated): the query of attempt i is preceded by a wait of
\* base_delay * 2^i, the first one by the grace delay in addition.
C20_WaitBeforeAttempt ==
  \A r \in RunIds :
    runs[r].pc = "poll"
      => runs[r].waited =
           BaseDelay * 2 ^ runs[r].i
             + (IF runs[r].i = 1 THEN GraceDelay ELSE 0)

\* C20 (amended): the query of attempt 1 is preceded by the grace delay of
\* 5000 ms only, the query of attempt i >= 2 by the wait of
\* 3000 * 2^(i-1) ms that follows attempt i-1; attempts never exceed
\* maxRetries.
C20_WaitFollowsAttempt ==
  \A r \in RunIds :
    runs[r].pc = "poll"
      => /\ runs[r].i \in 1..maxRetries
         /\ runs[r].waited =
              IF runs[r].i = 1 THEN 5000 ELSE 3000 * 2 ^ (runs[r].i - 1)

C20_Witness ==
  \E r \in RunIds :
    runs[r].pc = "poll" /\ runs[r].i = maxRetries
      /\ runs[r].waited = 1536000


\* C13: when the background task of an order-completed delivery has ended,
\* the orchestrator has been invoked exactly once for every line item whose
\* name signals an eSIM product, in order, including the items that follow
\* an item whose provisioning failed, and for no other item.
C13_OncePerEsimItem ==
  hook.pc = "done" => hook.invoked = EsimItems(hook.items, 1)


C15_IccidWrittenOnce ==
  [][/\ Len(esims') >= Len(esims)
     /\ \A k \in DOMAIN esims :
          esims[k].iccid # EmptyIccid => esims'[k].iccid = esims[k].iccid]_vars

\* a row with an ICCID has been written by an admin action: its status
\* changed, its ICCID did not
C15_Witness ==
  \E k \in DOMAIN esims :
    /\ esims[k].iccid = "X"
    /\ applied[k] # <<>>
    /\ applied[k][Len(applied[k])] \in AdminActions
    /\ esims[k].status \in {"SUSPENDED", "REVOKED", "CANCELLED"}


\* C16: at most one eSIM entity exists per order line, under any
\* interleaving of activateEsim requests and whatever number of profiles a
\* vendor order returns: no two rows of esims carry the same order_id.
C16_OneEntityPerOrder ==
  \A j, k \in DOMAIN esims : esims[j].order_id = esims[k].order_id => j = k


\* C21: for every vendor webhook that parses, the raw event is written to
\* the audit sink (system_logs) before any eSIM update caused by the event,
\* whether or not that update succeeds: the audit insert is the first
\* record-store effect of the request.
C21_AuditBeforeUpdate ==
  [][(lastReq'.kind = "webhook" /\ lastReq'.body # "malformed")
       => /\ lastReq'.effects # <<>>
          /\ lastReq'.effects[1] =
               Effect("system_logs", "insert", lastReq'.data)
          /\ \A n \in 2..Len(lastReq'.effects) :
               lastReq'.effects[n].table # "system_logs"]_vars


\* C22: a profile.unsuspended webhook event moves a row to ACTIVE only when
\* the row is SUSPENDED; a row in any other status keeps its status.
C22_UnsuspendOnlyFromSuspended ==
  [][(lastReq'.kind = "webhook" /\ lastReq'.body = "object"
        /\ lastReq'.data.event = "profile.unsuspended")
       => \A k \in DOMAIN esims :
            esims[k].status # "SUSPENDED"
              => esims'[k].status = esims[k].status]_vars

\* C23: a usage.threshold webhook event changes no row, and it inserts a
\* user notification only when the row resolved by ICCID is ACTIVE.
C23_UsageNotifiesActiveOnly ==
  [][(lastReq'.kind = "webhook" /\ lastReq'.body = "object"
        /\ lastReq'.data.event = "usage.threshold")
       => /\ esims' = esims
          /\ (\E n \in DOMAIN lastReq'.effects :
                lastReq'.effects[n].table = "user_notifications")
               => \E k \in DOMAIN esims :
                    /\ esims[k].iccid = lastReq'.data.iccid
                    /\ esims[k].status = "ACTIVE"]_vars


\* C25: the activation log is append-only and complete: every lifecycle
\* transition attempt on an existing entity (a lifecycle webhook event for
\* its ICCID, a deactivation that reaches its update, failed or not)
\* inserts exactly one esim_activation_logs row, and that table is only
\* ever inserted into.
C25_OneLogPerTransition ==
  [][LET logs == {n \in DOMAIN lastReq'.effects :
                    lastReq'.effects[n].table = "esim_activation_logs"}
         attempt ==
           \/ /\ lastReq'.kind = "webhook"
              /\ lastReq'.body = "object"
              /\ lastReq'.data.event \in LifecycleEvents
              /\ \E k \in DOMAIN esims :
                   esims[k].iccid = lastReq'.data.iccid
           \/ /\ lastReq'.kind = "deactivate"
              /\ lastReq'.status \in {200, 500}
     IN /\ \A n \in logs : lastReq'.effects[n].op = "insert"
        /\ attempt => Cardinality(logs) = 1]_vars

\* C26: a row that deactivateEsim has set to DEACTIVATED is not changed by
\* the delayed activation task of activateEsim: when the task fires, the
\* row keeps its status.
C26_TimerSparesDeactivated ==
  [][lastReq'.kind = "timer"
       => \A k \in DOMAIN esims :
            esims[k].status = "DEACTIVATED"
              => esims'[k].status = "DEACTIVATED"]_vars


\* C27: within one provisioning run the ledger never receives both the
\* 'eSIM is ready' note and a 'provisioning failed' note, also when the
\* metadata update that follows the success note fails.
C27_NotesExclusive ==
  \A r \in RunIds :
    ~ /\ \E n \in DOMAIN ledger[r].notes : ledger[r].notes[n].kind = "ready"
      /\ \E n \in DOMAIN ledger[r].notes : ledger[r].notes[n].kind = "failed"


\* C28: an order whose metadata carries status 'provisioned' also carries a
\* non-empty ICCID that a poll of the run's vendor order returned: the
\* metadata is never written from a poll result without ICCID nor after
\* the poll loop ran out of attempts.
C28_ProvisionedHasPolledIccid ==
  \A r \in RunIds :
    \A n \in DOMAIN ledger[r].metas :
      ledger[r].metas[n].status = "provisioned"
        => /\ ledger[r].metas[n].iccid # EmptyIccid
           /\ ledger[r].metas[n].iccid \in ProfileIccids
           /\ runs[r].details = Some([iccid |-> ledger[r].metas[n].iccid])
           /\ runs[r].orderNumber # Null
           /\ vendor[r].poll \in 1..maxRetries
           /\ runs[r].i <= maxRetries

\* the metadata was written after polls without ICCID and one with it
C28_Witness ==
  \E r \in RunIds :
    /\ runs[r].outcome = "returned"
    /\ vendor[r].poll = 3
    /\ ledger[r].metas = <<[iccid |-> "X", status |-> "provisioned"]>>


\* C24: writes to one entity are serialized: a lifecycle webhook event
\* applied to a row while an admin action on that row is between its
\* vendor call and its record-store update is not overwritten by that
\* update.
C24_AdminUpdateSparesWebhook ==
  [][(/\ pending.admin # Null
      /\ pending'.admin = Null
      /\ lastReq.kind = "webhook"
      /\ lastReq.fault = "none"
      /\ lastReq.data.event \in LifecycleEvents)
       => \A k \in DOMAIN esims :
            (esims[k].id = pending.admin[1].id
               /\ esims[k].iccid = lastReq.data.iccid)
              => esims'[k].status = esims[k].status]_vars


\* C29: in the admin cancel, suspend, unsuspend and revoke routes the
\* vendor call precedes the record-store update: a request whose vendor
\* call fails (or that is not authorized) gets an error response and leaves
\* every row unchanged, the step that issues the vendor call writes no row,
\* and rows are written only by the step that follows an accepted call.
C29_VendorCallBeforeUpdate ==
  [][/\ (lastReq'.kind = "admin" /\ lastReq'.status # 200)
          => /\ lastReq'.status \in {403, 500}
             /\ esims' = esims
     /\ (pending.admin = Null /\ pending'.admin # Null) => esims' = esims
     /\ (lastReq'.kind = "admin" /\ esims' # esims)
          => pending.admin # Null /\ lastReq'.status = 200]_vars

\* the vendor refused an admin action on an existing row
C29_Witness ==
  /\ lastReq.kind = "admin"
  /\ lastReq.status = 500
  /\ lastReq.caller.role = "admin"
  /\ \E k \in DOMAIN esims :
       esims[k].id = lastReq.esimId /\ esims[k].status = "PENDING_ACTIVATION"


\* C30: a suspended or unsuspended event, from a webhook or an admin
\* action, changes only the suspension reason inside the metadata of a row:
\* every other metadata key the row holds is still there with its value.
C30_MetadataKeysKept ==
  [][(\/ /\ lastReq'.kind = "webhook"
         /\ lastReq'.data.event \in {"profile.suspended", "profile.unsuspended"}
      \/ /\ lastReq'.kind = "admin"
         /\ lastReq'.data.event \in {"suspend", "unsuspend"})
       => \A k \in DOMAIN esims :
            \A key \in DOMAIN esims[k].metadata \ {"suspension_reason"} :
              /\ key \in DOMAIN esims'[k].metadata
              /\ esims'[k].metadata[key] = esims[k].metadata[key]]_vars
====
